---- MODULE Spec2Model ----
(***************************************************************************)
(* MiniTweet: the Tweet entity (tweets/models.py), the two input forms     *)
(* (tweets/forms.py) and the request handlers (tweets/views.py) over a     *)
(* relational store with foreign keys (minitweet/docker_settings.py:       *)
(* PostgreSQL).                                                            *)
(*                                                                         *)
(* Grain of atomicity: one step per statement a handler sends to the       *)
(* tweets table (SELECT of get_object_or_404, INSERT/UPDATE of save, the   *)
(* SELECTs of the cascade collector, the DELETE transaction).  Requests    *)
(* in flight interleave between those steps.                               *)
(***************************************************************************)
EXTENDS Integers, Sequences, FiniteSets, Bags, TLC

(***************************************************************************)
(* Bounds of the model                                                     *)
(***************************************************************************)
\* ids the sequence hands out when requests are served one at a time
MaxPosts == 3
\* ids the sequence hands out when requests interleave, and when the store is
\* written through the model or driven with the wide range of form inputs
MaxPostsSmall == 2
\* requests in flight when requests interleave
MaxReq == 2

(***************************************************************************)
(* Program constants                                                       *)
(***************************************************************************)
max_length == 280
DefaultUserId == 1
allowed_types == {"image/jpeg", "image/png", "image/gif", "image/webp"}

\* request.user of an unauthenticated request (AnonymousUser)
Anon == 0
\* parent_tweet IS NULL
Null == 0
\* the accounts of auth_user when the process starts
AllUsers == {1, 2}

(***************************************************************************)
(* Text.  A string is kept as its three runs: leading whitespace, the part *)
(* from the first to the last non-whitespace character, trailing           *)
(* whitespace.  That is all len() and str.strip() read.                    *)
(***************************************************************************)
Text(l, c, t) == [lead |-> l, core |-> c, trail |-> t]

len(s) == s.lead + s.core + s.trail

\* a trim of the leading whitespace only: the fault the trimmed-text property
\* C24 tells from strip
lstrip(s) == Text(0, s.core, s.trail)

strip(s) == Text(0, s.core, 0)

(***************************************************************************)
(* Files.  name = "" is "no file" (FieldFile.__bool__ is bool(name)).      *)
(* content_type is what the client declared; format is the MIME type of    *)
(* the format the image decoder recognises in the bytes, "" when the bytes *)
(* are not a decodable image.                                              *)
(***************************************************************************)
File(n, sz, ct, fmt) == [name |-> n, size |-> sz, content_type |-> ct, format |-> fmt]

NoFile == File("", 0, "", "")

\* a FieldFile read back from a stored row: it has a name and a size and no
\* content_type attribute
IsFieldFile(f) == f.name # "" /\ f.content_type = "<unset>"

AsFieldFile(f) == IF f.name = "" THEN f ELSE [f EXCEPT !.content_type = "<unset>"]

(***************************************************************************)
(* tweets/forms.py                                                         *)
(***************************************************************************)
\* a CharField that validates the text as typed (strip=False): the fault the
\* text-length property C6 tells from CharField_clean
CharField_clean_unstripped(value) ==
    [ok |-> len(value) >= 1 /\ len(value) <= max_length, value |-> value]

\* forms.CharField(max_length=280): strip, required, MaxLengthValidator
CharField_clean(value) ==
    LET v == strip(value) IN
    IF len(v) = 0 THEN [ok |-> FALSE, value |-> v]
    ELSE IF len(v) > max_length THEN [ok |-> FALSE, value |-> v]
    ELSE [ok |-> TRUE, value |-> v]

\* forms.ImageField(required=False).clean(data, initial): no upload keeps the
\* initial file; an empty upload and undecodable bytes are errors; a decoded
\* upload has its content_type overwritten with the decoded format's MIME type
ImageField_clean(data, initial) ==
    IF data.name = "" THEN [ok |-> TRUE, value |-> initial]
    ELSE IF data.size = 0 THEN [ok |-> FALSE, value |-> NoFile]
    ELSE IF data.format = "" THEN [ok |-> FALSE, value |-> NoFile]
    ELSE [ok |-> TRUE, value |-> [data EXCEPT !.content_type = data.format]]

\* a file name of 101 characters
LongName == "aaaaaaaaaaaaaaaaaaaaaaaaaaaaaaaaaaaaaaaaaaaaaaaaaaaaaaaaaaaaaaaaaaaaaaaaaaaaaaaaaaaaaaaaaaaaaaaaa.jpg"

\* len(data.name), for the names of the files the forms are given
name_len(n) ==
    CASE n = "" -> 0
      [] n = "f" -> 1
      [] n = "a.jpg" -> 5
      [] n = "h.jpg" -> 5
      [] n = "notes.txt" -> 9
      [] n = "exact_size.jpg" -> 14
      [] n = LongName -> 101

\* the form field a ModelForm derives from Tweet.image when the form declares
\* none: forms.ImageField(required=False, max_length=100), 100 being the
\* max_length of a models.ImageField that sets none; to_python refuses a
\* longer file name before anything else
Tweet_image_formfield_clean(data, initial) ==
    IF data.name # "" /\ name_len(data.name) > 100 THEN [ok |-> FALSE, value |-> NoFile]
    ELSE ImageField_clean(data, initial)

\* TweetForm.clean_image: "ok", "error" (ValidationError) or "raise" (reading
\* content_type of a FieldFile is an AttributeError)
clean_image(image) ==
    IF image.name # ""
    THEN IF image.size > 5 * 1024 * 1024 THEN "error"
         ELSE IF IsFieldFile(image) THEN "raise"
         ELSE IF image.content_type \notin allowed_types THEN "error"
         ELSE "ok"
    ELSE "ok"

\* ReplyForm.clean_image
ReplyForm_clean_image(image) ==
    IF image.name # ""
    THEN IF image.size > 5 * 1024 * 1024 THEN "error"
         ELSE IF IsFieldFile(image) THEN "raise"
         ELSE IF image.content_type \notin allowed_types THEN "error"
         ELSE "ok"
    ELSE "ok"

\* full_clean of a bound form: every field is cleaned, then its clean_<name>
FormResult(t, i, ci) ==
    [ errors  |-> (IF t.ok THEN {} ELSE {"text"})
                  \cup (IF i.ok /\ ci = "ok" THEN {} ELSE {"image"}),
      raised  |-> i.ok /\ ci = "raise",
      text    |-> t.value,
      image   |-> i.value ]

\* TweetForm(request.POST, request.FILES, instance=...)
TweetForm(data, files, initial) ==
    LET t == CharField_clean(data)
        i == ImageField_clean(files, initial)
    IN FormResult(t, i, IF i.ok THEN clean_image(i.value) ELSE "ok")

\* ReplyForm(request.POST, request.FILES)
ReplyForm(data, files) ==
    LET t == CharField_clean(data)
        i == Tweet_image_formfield_clean(files, NoFile)
    IN FormResult(t, i, IF i.ok THEN ReplyForm_clean_image(i.value) ELSE "ok")

is_valid(form) == form.errors = {} /\ ~form.raised

(***************************************************************************)
(* State                                                                   *)
(***************************************************************************)
VARIABLES
    users,      \* ids of the rows of auth_user
    tweets,     \* the rows of the tweets table: id -> row
    nextId,     \* next value of the id sequence
    now,        \* the clock read by auto_now / auto_now_add
    reqs,       \* the bag of requests in flight, each suspended between two statements
    resp,       \* the response being sent, NoResponse between two responses
    limit,      \* what the run is bounded by: ids handed out, requests in flight
    middleware, \* the DatabaseCheckMiddleware instance of the process
    database,   \* the database server: reachable or not, migrated or not
    calls,      \* how many times _check_database has been called
    command     \* the run of `manage.py check_database`: its options and locals

vars == <<users, tweets, nextId, now, reqs, resp, limit, middleware, database, calls, command>>


\* class Tweet(models.Model)
Tweet(t, i, c, u, usr, par) ==
    [ text |-> t, image |-> i, created_at |-> c, updated_at |-> u,
      user |-> usr, parent_tweet |-> par ]

NoTweet == Tweet(Text(0, 0, 0), NoFile, 0, 0, 0, Null)

\* the body of a request: POST fields, FILES, content type, CONTENT_LENGTH
Body(t, i, mp, cl) == [text |-> t, image |-> i, multipart |-> mp, content_length |-> cl]

NoBody == Body(Text(0, 0, 0), NoFile, FALSE, 0)

\* a request in flight: the view serving it, request.user, pk, the body, where
\* the view is, the instance it holds and the objects its collector holds
Request(v, u, pk, b, ph, tw, objs) ==
    [ view |-> v, user |-> u, pk |-> pk, body |-> b, phase |-> ph, tweet |-> tw,
      objs |-> objs ]


\* a response: status, redirect target or template, the form's error fields,
\* the notification emitted, the object list of the context, and what the
\* request wrote (id saved, ids deleted)
Response(v, m, u, pk, st, to, errs, msg, ctx, saved, deleted) ==
    [ view |-> v, method |-> m, user |-> u, pk |-> pk, body |-> NoBody, path |-> <<>>,
      status |-> st, to |-> to, errors |-> errs, message |-> msg, context |-> ctx,
      saved |-> saved, deleted |-> deleted ]

\* the response to a request that carried `body`
To(body, response) == [response EXCEPT !.body = body]

\* the response to a request for `path`, the list request.path.split("/")
At(path, response) == [response EXCEPT !.path = path]

NoResponse == Response("", "", Anon, Null, 0, "", {}, "none", <<>>, Null, {})

\* the clock stops the run after one save more than there are ids
MaxClock == limit.posts + 1

pks == DOMAIN tweets

(***************************************************************************)
(* tweets/urls.py and django.shortcuts.redirect                            *)
(***************************************************************************)
app_name == "tweets"

urlpatterns ==
    {"tweet_list", "tweet_create", "tweet_detail", "tweet_update", "tweet_delete", "tweet_reply"}

\* minitweet/urls.py, the ROOT_URLCONF: tweets/urls.py is included, and with
\* its app_name every one of its URL names lives in that namespace; no URL
\* name is defined outside a namespace
ROOT_URLCONF == [namespace \in {app_name} |-> urlpatterns]

\* redirect("<namespace>:<name>") and redirect("<name>") (namespace ""): a name
\* that does not reverse raises NoReverseMatch
redirect(namespace, name) ==
    IF namespace \in DOMAIN ROOT_URLCONF /\ name \in ROOT_URLCONF[namespace]
    THEN [status |-> 302, to |-> name]
    ELSE [status |-> 500, to |-> "NoReverseMatch"]

(***************************************************************************)
(* tweets/models.py and the store                                          *)
(***************************************************************************)
\* Tweet.clean: TRUE when it raises no ValidationError
clean(tweet) == ~(tweet.image.name # "" /\ tweet.image.size > 5 * 1024 * 1024)

\* text = CharField(max_length=280) is the column varchar(280)
ColumnOk(tweet) == len(tweet.text) <= max_length

\* user and parent_tweet are foreign keys
ForeignKeysOk(tweet, us, tw) ==
    /\ tweet.user \in us
    /\ tweet.parent_tweet = Null \/ tweet.parent_tweet \in DOMAIN tw

\* the rows that reference a row of S through parent_tweet
replies(S, tw) == {p \in DOMAIN tw : tw[p].parent_tweet \in S}

\* a collector that stops at the direct replies: the fault the cascade
\* property C1 tells from collect
collect_shallow(S, tw) == S \cup replies(S, tw)

RECURSIVE collect(_, _)
\* Collector.collect for on_delete=CASCADE on parent_tweet: the objects and,
\* level by level, the rows that reference them
collect(S, tw) ==
    LET sub == replies(S, tw) \ S IN
    IF sub = {} THEN S ELSE collect(S \cup sub, tw)

\* the top-level rows of a user only: the fault the account-deletion property
\* C3 tells from user_tweets
user_tweets_top(u, tw) == {p \in DOMAIN tw : tw[p].user = u /\ tw[p].parent_tweet = Null}

\* the rows of a user (related_name="tweets")
user_tweets(u, tw) == {p \in DOMAIN tw : tw[p].user = u}

\* the DELETE transaction of Collector.delete for the collected objs (and the
\* user row u, Null when none is deleted): the store rejects it when a row that
\* stays references a row that goes
DeleteOk(objs, u, tw) ==
    \A p \in DOMAIN tw \ objs :
        /\ tw[p].parent_tweet \notin (objs \cap DOMAIN tw)
        /\ u = Null \/ tw[p].user # u

Remove(objs, tw) == [p \in DOMAIN tw \ objs |-> tw[p]]

Put(pk, row, tw) == [p \in DOMAIN tw \cup {pk} |-> IF p = pk THEN row ELSE tw[p]]

\* Tweet.save() of an instance without pk: "ValidationError" from clean(),
\* "DataError" / "IntegrityError" from the INSERT, or "saved"
save_new(tweet, us, tw) ==
    IF ~clean(tweet) THEN "ValidationError"
    ELSE IF ~ColumnOk(tweet) THEN "DataError"
    ELSE IF ~ForeignKeysOk(tweet, us, tw) THEN "IntegrityError"
    ELSE "saved"

RECURSIVE order_by(_, _, _)
\* QuerySet.order_by("created_at") and, with desc, order_by("-created_at")
order_by(S, tw, desc) ==
    IF S = {} THEN <<>>
    ELSE LET first == CHOOSE p \in S : \A q \in S :
                          IF desc THEN tw[q].created_at <= tw[p].created_at
                                  ELSE tw[q].created_at >= tw[p].created_at
         IN <<first>> \o order_by(S \ {first}, tw, desc)

\* Tweet.objects.order_by("-created_at"), replies included: the fault the
\* listing property C17 tells from top_level
top_level_all(tw) == order_by(DOMAIN tw, tw, TRUE)

\* Tweet.objects.filter(parent_tweet__isnull=True).order_by("-created_at")
top_level(tw) == order_by({p \in DOMAIN tw : tw[p].parent_tweet = Null}, tw, TRUE)

(***************************************************************************)
(* tweets/views.py                                                         *)
(***************************************************************************)
\* a size check that also rejects a declared length of exactly 5 MB: the
\* fault the guard property C21 tells from too_large
too_large_inclusive(body) ==
    /\ body.multipart
    /\ body.content_length # 0
    /\ body.content_length >= 5 * 1024 * 1024

\* "Check if request is too large before processing"
too_large(body) ==
    /\ body.multipart
    /\ body.content_length # 0
    /\ body.content_length > 5 * 1024 * 1024

\* the requests a client of the site can send: an authenticated account or
\* nobody; a file travels in a multipart body that is longer than the file
Principals == users \cup {Anon}

WellFormed(body) == body.image.name # "" => body.multipart /\ body.content_length > body.image.size

\* a request is accepted when the last response has left
Ready == resp = NoResponse

\* the requests in flight; a worker is free to serve another one
InFlight == BagToSet(reqs)

Accepting == Ready /\ BagCardinality(reqs) < limit.reqs

\* a request is suspended between two statements, resumes, ends
Begin(q) == reqs' = reqs (+) SetToBag({q})

Move(q, next) == reqs' = (reqs (-) SetToBag({q})) (+) SetToBag({next})

End(q) == reqs' = reqs (-) SetToBag({q})

\* every new tweet given to the default account: the fault the creation
\* property C10 tells from author
author_default(user) == IF DefaultUserId \in users THEN DefaultUserId ELSE Null

\* the author a handler gives a new tweet: request.user, or User.objects.get(id=1);
\* Null when that get raises DoesNotExist
author(user) ==
    IF user # Anon THEN user
    ELSE IF DefaultUserId \in users THEN DefaultUserId ELSE Null

\* an invalid form always answered by rendering the page again: the fault
\* the reply property C13 tells from Invalid
Invalid_rendered(view, method, user, pk, form, status, to) ==
    Response(view, method, user, pk, 200, view, form.errors, "error", <<>>, Null, {})

\* what a handler does when the form is invalid: one notification, errors kept
Invalid(view, method, user, pk, form, status, to) ==
    Response(view, method, user, pk, status, to, form.errors, "error", <<>>, Null, {})

\* a response of a view that wrote nothing
Plain(view, method, user, pk, status, to, msg) ==
    Response(view, method, user, pk, status, to, {}, msg, <<>>, Null, {})

\* a pre_save that sets created_at on every save: the fault the frame property
\* C15 tells from pre_save
pre_save_touch(tweet, add) == [tweet EXCEPT !.created_at = now, !.updated_at = now]

\* the date fields Model.save() sets: updated_at (auto_now) on every save,
\* created_at (auto_now_add) only when the row is added
pre_save(tweet, add) ==
    [tweet EXCEPT !.created_at = IF add THEN now ELSE @, !.updated_at = now]

\* tweet.save() of a new tweet and what follows it: messages.success and the
\* response `ok` when it returns, a 500 when it raises
Insert(view, method, user, pk, body, tweet, ok) ==
    LET row == pre_save(tweet, TRUE)
        res == save_new(row, users, tweets)
    IN /\ nextId <= limit.posts
       /\ now < MaxClock
       /\ IF res = "saved"
          THEN /\ tweets' = Put(nextId, row, tweets)
               /\ nextId' = nextId + 1
               /\ now' = now + 1
               /\ resp' = To(body, Response(view, method, user, pk, ok.status, ok.to, {}, ok.message,
                                   <<>>, nextId, {}))
          ELSE /\ nextId' = (IF res = "ValidationError" THEN nextId ELSE nextId + 1)
               /\ UNCHANGED <<tweets, now>>
               /\ resp' = To(body, Plain(view, method, user, pk, 500, res, "none"))

\* messages.success(...) followed by return redirect(...)
Success(to) == [status |-> to.status, to |-> to.to, message |-> "success"]

\* tweet_list and tweet_create, GET
tweet_list_get(view, user) ==
    /\ Accepting
    /\ view \in {"tweet_list", "tweet_create"}
    /\ user \in Principals
    /\ resp' = Response(view, "GET", user, Null, 200, view, {}, "none",
                        IF view = "tweet_list" THEN top_level(tweets) ELSE <<>>, Null, {})
    /\ UNCHANGED <<users, tweets, nextId, now, reqs, limit, middleware, database, calls, command>>

\* tweet_list and tweet_create, POST
tweet_create(view, user, body) ==
    /\ Accepting
    /\ view \in {"tweet_list", "tweet_create"}
    /\ user \in Principals
    /\ WellFormed(body)
    /\ LET form == TweetForm(body.text, body.image, NoFile)
           ctx == IF view = "tweet_list" THEN top_level(tweets) ELSE <<>>
       IN IF too_large(body)
          THEN /\ resp' = To(body, Response(view, "POST", user, Null, 200, view, {}, "error", ctx, Null, {}))
               /\ UNCHANGED <<tweets, nextId, now>>
          ELSE IF ~is_valid(form)
          THEN /\ resp' = To(body, [Invalid(view, "POST", user, Null, form, 200, view) EXCEPT !.context = ctx])
               /\ UNCHANGED <<tweets, nextId, now>>
          ELSE IF author(user) = Null
          THEN /\ resp' = To(body, Response(view, "POST", user, Null, 500, "DoesNotExist", {}, "none", <<>>, Null, {}))
               /\ UNCHANGED <<tweets, nextId, now>>
          ELSE Insert(view, "POST", user, Null, body,
                      Tweet(form.text, form.image, 0, 0, author(user), Null),
                      Success(redirect("tweets", "tweet_list")))
    /\ UNCHANGED <<users, reqs, limit, middleware, database, calls, command>>

\* a detail page that shows the whole thread under the tweet: the fault the
\* detail property C18 tells from tweet_detail
tweet_detail_thread(user, pk) ==
    /\ Accepting
    /\ user \in Principals
    /\ pk \in 1..limit.posts
    /\ resp' = IF pk \notin pks
               THEN Response("tweet_detail", "GET", user, pk, 404, "", {}, "none", <<>>, Null, {})
               ELSE Response("tweet_detail", "GET", user, pk, 200, "tweet_detail", {}, "none",
                             order_by(collect({pk}, tweets) \ {pk}, tweets, FALSE), Null, {})
    /\ UNCHANGED <<users, tweets, nextId, now, reqs, limit, middleware, database, calls, command>>

\* tweet_detail
tweet_detail(user, pk) ==
    /\ Accepting
    /\ user \in Principals
    /\ pk \in 1..limit.posts
    /\ resp' = IF pk \notin pks
               THEN Response("tweet_detail", "GET", user, pk, 404, "", {}, "none", <<>>, Null, {})
               ELSE Response("tweet_detail", "GET", user, pk, 200, "tweet_detail", {}, "none",
                             order_by(replies({pk}, tweets), tweets, FALSE), Null, {})
    /\ UNCHANGED <<users, tweets, nextId, now, reqs, limit, middleware, database, calls, command>>

\* tweet_reply up to the save: get_object_or_404, the method, the size check,
\* the form
tweet_reply(user, pk, method, body) ==
    /\ Accepting
    /\ user \in Principals
    /\ pk \in 1..limit.posts
    /\ method \in {"GET", "POST"}
    /\ method = "GET" => body = NoBody
    /\ WellFormed(body)
    /\ LET form == ReplyForm(body.text, body.image)
           back == redirect("tweets", "tweet_detail")
       IN IF pk \notin pks
          THEN /\ resp' = To(body, Response("tweet_reply", method, user, pk, 404, "", {}, "none", <<>>, Null, {}))
               /\ UNCHANGED reqs
          ELSE IF method # "POST"
          THEN /\ resp' = To(body, Response("tweet_reply", method, user, pk, back.status, back.to, {}, "none", <<>>, Null, {}))
               /\ UNCHANGED reqs
          ELSE IF too_large(body)
          THEN /\ resp' = To(body, Response("tweet_reply", method, user, pk, back.status, back.to, {}, "error", <<>>, Null, {}))
               /\ UNCHANGED reqs
          ELSE IF ~is_valid(form)
          THEN /\ resp' = To(body, Invalid("tweet_reply", method, user, pk, form, back.status, back.to))
               /\ UNCHANGED reqs
          ELSE /\ Begin(Request("tweet_reply", user, pk, body, "valid",
                            Tweet(form.text, form.image, 0, 0, user, pk), {}))
               /\ UNCHANGED resp
    /\ UNCHANGED <<users, tweets, nextId, now, limit, middleware, database, calls, command>>

\* a reply saved without reply.parent_tweet = parent_tweet: the fault the
\* reply property C11 tells from tweet_reply_save
tweet_reply_save_detached(q) ==
    /\ Ready
    /\ q \in InFlight
    /\ q.view = "tweet_reply"
    /\ q.phase = "valid"
    /\ IF author(q.user) = Null
       THEN /\ resp' = To(q.body, Response("tweet_reply", "POST", q.user, q.pk, 500, "DoesNotExist", {}, "none", <<>>, Null, {}))
            /\ UNCHANGED <<tweets, nextId, now>>
       ELSE Insert("tweet_reply", "POST", q.user, q.pk, q.body,
                   [q.tweet EXCEPT !.user = author(q.user), !.parent_tweet = Null],
                   Success(redirect("tweets", "tweet_detail")))
    /\ End(q)
    /\ UNCHANGED <<users, limit, middleware, database, calls, command>>

\* tweet_reply from the valid form on: the author, reply.save(), the redirect
tweet_reply_save(q) ==
    /\ Ready
    /\ q \in InFlight
    /\ q.view = "tweet_reply"
    /\ q.phase = "valid"
    /\ IF author(q.user) = Null
       THEN /\ resp' = To(q.body, Response("tweet_reply", "POST", q.user, q.pk, 500, "DoesNotExist", {}, "none", <<>>, Null, {}))
            /\ UNCHANGED <<tweets, nextId, now>>
       ELSE Insert("tweet_reply", "POST", q.user, q.pk, q.body, [q.tweet EXCEPT !.user = author(q.user)],
                   Success(redirect("tweets", "tweet_detail")))
    /\ End(q)
    /\ UNCHANGED <<users, limit, middleware, database, calls, command>>

\* @login_required for an unauthenticated request
login_required(view, method, pk) ==
    Plain(view, method, Anon, pk, 302, "login", "none")

\* get_object_or_404(Tweet, pk=pk): the fault the ownership property C4 tells
\* from owned
owned_by_anyone(user, pk, tw) == pk \in DOMAIN tw

\* get_object_or_404(Tweet, pk=pk, user=request.user)
owned(user, pk, tw) == pk \in DOMAIN tw /\ tw[pk].user = user

\* a head that answers 403 for a tweet of another user and 404 for no tweet:
\* the fault the indistinguishability property C5 tells from access
access_forbidden(view, user, pk, method, tw) ==
    IF user = Anon THEN login_required(view, method, pk)
    ELSE IF pk \notin DOMAIN tw THEN Plain(view, method, user, pk, 404, "", "none")
    ELSE IF tw[pk].user # user THEN Plain(view, method, user, pk, 403, "", "none")
    ELSE NoResponse

\* the head of tweet_update and tweet_delete: the response that ends the
\* request before the view's body runs, NoResponse when the body runs
access(view, user, pk, method, tw) ==
    IF user = Anon THEN login_required(view, method, pk)
    ELSE IF ~owned(user, pk, tw) THEN Plain(view, method, user, pk, 404, "", "none")
    ELSE NoResponse

\* tweet_update up to the save: login_required, get_object_or_404, the method,
\* the size check, the form bound to the instance
tweet_update(user, pk, method, body) ==
    /\ Accepting
    /\ user \in Principals
    /\ pk \in 1..limit.posts
    /\ method \in {"GET", "POST"}
    /\ method = "GET" => body = NoBody
    /\ WellFormed(body)
    /\ IF access("tweet_update", user, pk, method, tweets) # NoResponse
       THEN /\ resp' = To(body, access("tweet_update", user, pk, method, tweets))
            /\ UNCHANGED reqs
       ELSE IF method # "POST"
       THEN /\ resp' = To(body, Plain("tweet_update", method, user, pk, 200, "tweet_update", "none"))
            /\ UNCHANGED reqs
       ELSE IF too_large(body)
       THEN /\ resp' = To(body, Plain("tweet_update", method, user, pk, 200, "tweet_update", "error"))
            /\ UNCHANGED reqs
       ELSE LET form == TweetForm(body.text, body.image, AsFieldFile(tweets[pk].image)) IN
            IF form.raised
            THEN /\ resp' = To(body, Plain("tweet_update", method, user, pk, 500, "AttributeError", "none"))
                 /\ UNCHANGED reqs
            ELSE IF ~is_valid(form)
            THEN /\ resp' = To(body, Invalid("tweet_update", method, user, pk, form, 200, "tweet_update"))
                 /\ UNCHANGED reqs
            ELSE /\ Begin(Request("tweet_update", user, pk, body, "valid",
                              [tweets[pk] EXCEPT !.text = form.text, !.image = form.image], {}))
                 /\ UNCHANGED resp
    /\ UNCHANGED <<users, tweets, nextId, now, limit, middleware, database, calls, command>>

\* an update that also writes parent_tweet, here with the tweet itself: the
\* fault the acyclicity property C19 tells from tweet_update_save
tweet_update_save_reparent(q) ==
    /\ Ready
    /\ q \in InFlight
    /\ q.view = "tweet_update"
    /\ q.phase = "valid"
    /\ q.pk \in pks
    /\ now < MaxClock
    /\ tweets' = Put(q.pk, [pre_save(q.tweet, FALSE) EXCEPT !.parent_tweet = q.pk], tweets)
    /\ now' = now + 1
    /\ resp' = To(q.body, Response("tweet_update", "POST", q.user, q.pk, 302, "tweet_detail", {},
                                  "success", <<>>, q.pk, {}))
    /\ End(q)
    /\ UNCHANGED <<users, nextId, limit, middleware, database, calls, command>>

\* tweet_update from the valid form on: form.save() is Tweet.save() of the
\* loaded instance (clean(), then UPDATE ... WHERE id = pk and, when that
\* matches no row, INSERT with the instance's pk), messages.success, redirect
tweet_update_save(q) ==
    /\ Ready
    /\ q \in InFlight
    /\ q.view = "tweet_update"
    /\ q.phase = "valid"
    /\ now < MaxClock
    /\ LET row == pre_save(q.tweet, FALSE)
           res == save_new(row, users, tweets)
           ok == Success(redirect("", "tweet_detail"))
       IN IF res = "saved"
          THEN /\ tweets' = Put(q.pk, row, tweets)
               /\ now' = now + 1
               /\ resp' = To(q.body, Response("tweet_update", "POST", q.user, q.pk, ok.status, ok.to, {},
                                   ok.message, <<>>, q.pk, {}))
          ELSE /\ UNCHANGED <<tweets, now>>
               /\ resp' = To(q.body, Plain("tweet_update", "POST", q.user, q.pk, 500, res, "none"))
    /\ End(q)
    /\ UNCHANGED <<users, nextId, limit, middleware, database, calls, command>>

\* tweet_delete up to tweet.delete(): login_required, get_object_or_404, the
\* method
tweet_delete(user, pk, method) ==
    /\ Accepting
    /\ user \in Principals
    /\ pk \in 1..limit.posts
    /\ method \in {"GET", "POST"}
    /\ IF access("tweet_delete", user, pk, method, tweets) # NoResponse
       THEN /\ resp' = access("tweet_delete", user, pk, method, tweets)
            /\ UNCHANGED reqs
       ELSE IF method # "POST"
       THEN /\ resp' = Plain("tweet_delete", method, user, pk, 200, "tweet_delete", "none")
            /\ UNCHANGED reqs
       ELSE /\ Begin(Request("tweet_delete", user, pk, NoBody, "loaded", NoTweet, {}))
            /\ UNCHANGED resp
    /\ UNCHANGED <<users, tweets, nextId, now, limit, middleware, database, calls, command>>

\* Tweet.delete() called on an instance read from the store (tests, admin)
Tweet_delete(pk) ==
    /\ Accepting
    /\ pk \in pks
    /\ Begin(Request("Tweet.delete", Anon, pk, NoBody, "loaded", NoTweet, {}))
    /\ UNCHANGED <<users, tweets, nextId, now, resp, limit, middleware, database, calls, command>>

\* Model.delete, first half: the collector reads the rows that cascade
delete_collect(q) ==
    /\ Ready
    /\ q \in InFlight
    /\ q.view \in {"tweet_delete", "Tweet.delete"}
    /\ q.phase = "loaded"
    /\ Move(q, [q EXCEPT !.phase = "collected", !.objs = collect({q.pk}, tweets)])
    /\ UNCHANGED <<users, tweets, nextId, now, resp, limit, middleware, database, calls, command>>

\* Model.delete, second half: one transaction deletes the collected rows; then
\* (tweet_delete) messages.success and redirect("tweet_list")
delete_commit(q) ==
    /\ Ready
    /\ q \in InFlight
    /\ q.view \in {"tweet_delete", "Tweet.delete"}
    /\ q.phase = "collected"
    /\ LET ok == IF q.view = "tweet_delete" THEN Success(redirect("", "tweet_list"))
                 ELSE [status |-> 0, to |-> "returned", message |-> "none"]
       IN IF DeleteOk(q.objs, Null, tweets)
          THEN /\ tweets' = Remove(q.objs, tweets)
               /\ resp' = Response(q.view, IF q.view = "tweet_delete" THEN "POST" ELSE "", q.user, q.pk, ok.status, ok.to, {},
                                   ok.message, <<>>, Null, q.objs \cap pks)
          ELSE /\ UNCHANGED tweets
               /\ resp' = Plain(q.view, IF q.view = "tweet_delete" THEN "POST" ELSE "", q.user, q.pk, 500,
                             "IntegrityError", "none")
    /\ End(q)
    /\ UNCHANGED <<users, nextId, now, limit, middleware, database, calls, command>>

\* User.delete(), first half: the collector reads the user's tweets
\* (Tweet.user, on_delete=CASCADE) and the rows that cascade from them
User_delete(u) ==
    /\ Accepting
    /\ u \in users
    /\ Begin(Request("User.delete", Anon, u, NoBody, "collected", NoTweet,
                   collect(user_tweets(u, tweets), tweets)))
    /\ UNCHANGED <<users, tweets, nextId, now, resp, limit, middleware, database, calls, command>>

\* User.delete(), second half: one transaction deletes the collected rows and
\* the user row
User_delete_commit(q) ==
    /\ Ready
    /\ q \in InFlight
    /\ q.view = "User.delete"
    /\ q.phase = "collected"
    /\ IF DeleteOk(q.objs, q.pk, tweets)
       THEN /\ tweets' = Remove(q.objs, tweets)
            /\ users' = users \ {q.pk}
            /\ resp' = Response(q.view, "", Anon, q.pk, 0, "returned", {}, "none", <<>>,
                                Null, q.objs \cap pks)
       ELSE /\ UNCHANGED <<tweets, users>>
            /\ resp' = Plain(q.view, "", Anon, q.pk, 500, "IntegrityError", "none")
    /\ End(q)
    /\ UNCHANGED <<nextId, now, limit, middleware, database, calls, command>>

\* Tweet.objects.create(text=..., image=..., user=..., parent_tweet=...), and
\* Tweet(...).save(): the model's save() with no form in front of it
objects_create(text, image, user, parent) ==
    /\ Accepting
    /\ Insert("Tweet.objects.create", "", user, parent, Body(text, image, FALSE, 0),
              Tweet(text, image, 0, 0, user, parent),
              [status |-> 0, to |-> "returned", message |-> "none"])
    /\ UNCHANGED <<users, reqs, limit, middleware, database, calls, command>>

\* tweet.text = text; tweet.save() on an instance read from the store: the
\* model's save() with no form in front of it
Tweet_save(pk, text) ==
    /\ Accepting
    /\ pk \in pks
    /\ now < MaxClock
    /\ LET row == pre_save([tweets[pk] EXCEPT !.text = text], FALSE)
           res == save_new(row, users, tweets)
           body == Body(text, NoFile, FALSE, 0)
       IN IF res = "saved"
          THEN /\ tweets' = Put(pk, row, tweets)
               /\ now' = now + 1
               /\ resp' = To(body, Response("Tweet.save", "", tweets[pk].user, pk, 0, "returned", {},
                                             "none", <<>>, pk, {}))
          ELSE /\ UNCHANGED <<tweets, now>>
               /\ resp' = To(body, Plain("Tweet.save", "", tweets[pk].user, pk, 500, res, "none"))
    /\ UNCHANGED <<users, nextId, reqs, limit, middleware, database, calls, command>>

\* form = TweetForm(data=..., files=...) or ReplyForm(data=..., files=...);
\* form.is_valid(): the form on its own, nothing saved
form_is_valid(cls, data, files) ==
    /\ Accepting
    /\ cls \in {"TweetForm", "ReplyForm"}
    /\ LET form == IF cls = "TweetForm" THEN TweetForm(data, files, NoFile)
                   ELSE ReplyForm(data, files)
       IN resp' = To(Body(data, files, files.name # "", 0),
                     Response(cls, "", Anon, Null, 0,
                              IF form.raised THEN "AttributeError" ELSE "is_valid", form.errors,
                              "none", <<>>, Null, {}))
    /\ UNCHANGED <<users, tweets, nextId, now, reqs, limit, middleware, database, calls, command>>

(***************************************************************************)
(* tweets/middleware.py                                                    *)
(***************************************************************************)
\* the path segments an id is written with
Digits == {"1", "2"}

\* int(tweet_id) of a segment that is an id
int(segment) == IF segment = "1" THEN 1 ELSE 2

\* "<word>" in request.path, for paths whose segments are whole words
Contains(path, word) == \E i \in 1..Len(path) : path[i] = word

\* redirect("tweets:tweet_detail", pk=tweet_id): <int:pk> reverses for digits
\* only
redirect_detail(tweet_id) ==
    IF tweet_id \in Digits THEN redirect("tweets", "tweet_detail")
    ELSE [status |-> 500, to |-> "NoReverseMatch"]

\* FileSizeMiddleware.__call__: the response of the guard, or to
\* "get_response" when the request is passed on
FileSizeMiddleware(method, path, body) ==
    IF method = "POST" /\ too_large(body)
    THEN IF Contains(path, "tweets")
         THEN IF Contains(path, "reply") \/ Contains(path, "update")
              THEN LET tweet_id == path[Len(path) - 1]
                       to == redirect_detail(tweet_id)
                   IN At(path, To(body, Plain("FileSizeMiddleware", method, Anon,
                                              IF tweet_id \in Digits THEN int(tweet_id) ELSE Null,
                                              to.status, to.to, "error")))
              ELSE LET to == redirect("tweets", "tweet_list")
                   IN At(path, To(body, Plain("FileSizeMiddleware", method, Anon, Null,
                                              to.status, to.to, "error")))
         ELSE At(path, To(body, Plain("FileSizeMiddleware", method, Anon, Null, 400, "", "error")))
    ELSE At(path, To(body, Plain("FileSizeMiddleware", method, Anon, Null, 0, "get_response", "none")))

\* a request goes through the guard
FileSizeMiddleware_call(method, path, body) ==
    /\ Accepting
    /\ resp' = FileSizeMiddleware(method, path, body)
    /\ UNCHANGED <<users, tweets, nextId, now, reqs, limit, middleware, database, calls, command>>

(***************************************************************************)
(* tweets/middleware/database_check.py                                     *)
(***************************************************************************)
\* DATABASES["default"] as the process finds it: the server answers or not,
\* the django_migrations table is there or not
Database(available, migrated) == [available |-> available, migrated |-> migrated]

\* DatabaseCheckMiddleware.__init__
DatabaseCheckMiddleware_init == [_db_checked |-> FALSE, _db_healthy |-> FALSE]

\* a request inside DatabaseCheckMiddleware.__call__, about to run `phase`
Call(phase) == Request("DatabaseCheckMiddleware", Anon, Null, NoBody, phase, NoTweet, {})

\* HttpResponseServerError(..., content_type="text/plain") sent by `sender`
HttpResponseServerError(sender) ==
    Response(sender, "GET", Anon, Null, 500, "text/plain", {}, "none", <<>>, Null, {})

\* process_exception: a database error of the handler is answered in plain text,
\* any other exception is left to Django (None)
process_exception(exception) ==
    IF exception \in {"OperationalError", "DatabaseError"}
    THEN HttpResponseServerError("process_exception")
    ELSE Response("handler", "GET", Anon, Null, 500, exception, {}, "none", <<>>, Null, {})

\* self.get_response(request): the handler queries the database; a query that
\* fails raises OperationalError (no server) or a DatabaseError (no tables)
get_response(db) ==
    IF ~db.available THEN process_exception("OperationalError")
    ELSE IF ~db.migrated THEN process_exception("DatabaseError")
    ELSE Response("handler", "GET", Anon, Null, 200, "handler", {}, "none", <<>>, Null, {})

\* _check_database, the value it leaves in self._db_healthy: SELECT 1 and the
\* table lookup succeed, and migrate (run when the table is missing) succeeds
check_database_healthy(db, migrate) == db.available /\ (db.migrated \/ migrate)

\* _check_database, the database it leaves: call_command("migrate") ran
check_database_migrated(db, migrate) ==
    IF db.available /\ ~db.migrated /\ migrate THEN Database(TRUE, TRUE) ELSE db

\* __call__, line 29: the request reads self._db_checked
DatabaseCheckMiddleware_call ==
    /\ Accepting
    /\ Begin(Call(IF middleware._db_checked THEN "respond" ELSE "_check_database"))
    /\ UNCHANGED <<users, tweets, nextId, now, resp, limit, middleware, database, calls, command>>

\* __call__, line 31: self._check_database()
DatabaseCheckMiddleware_check_database(q) ==
    /\ Ready
    /\ q \in InFlight
    /\ q = Call("_check_database")
    /\ \E migrate \in BOOLEAN :
          /\ middleware' = [middleware EXCEPT !._db_healthy =
                                check_database_healthy(database, migrate)]
          /\ database' = check_database_migrated(database, migrate)
    /\ calls' = calls + 1
    /\ Move(q, Call("_db_checked"))
    /\ UNCHANGED <<users, tweets, nextId, now, resp, limit, command>>

\* __call__, line 32: self._db_checked = True
DatabaseCheckMiddleware_checked(q) ==
    /\ Ready
    /\ q \in InFlight
    /\ q = Call("_db_checked")
    /\ middleware' = [middleware EXCEPT !._db_checked = TRUE]
    /\ Move(q, Call("respond"))
    /\ UNCHANGED <<users, tweets, nextId, now, resp, limit, database, calls, command>>

\* __call__, lines 35-42: the error response, or the handler's
DatabaseCheckMiddleware_respond(q) ==
    /\ Ready
    /\ q \in InFlight
    /\ q = Call("respond")
    /\ resp' = IF ~middleware._db_healthy
               THEN HttpResponseServerError("DatabaseCheckMiddleware")
               ELSE get_response(database)
    /\ End(q)
    /\ UNCHANGED <<users, tweets, nextId, now, limit, middleware, database, calls, command>>

\* the database server stops answering, or answers again
database_switch ==
    /\ database' = [database EXCEPT !.available = ~database.available]
    /\ UNCHANGED <<users, tweets, nextId, now, reqs, resp, limit, middleware, calls, command>>

(***************************************************************************)
(* tweets/management/commands/check_database.py                            *)
(***************************************************************************)
\* the largest --max-retries a run is given
MaxRetries == 3

\* a run of the command: its options, the loop variable, the connection
\* attempts made so far, whether one succeeded, the statement it is at, which
\* checks have been started, the exception that ended it
Command(max_retries, create_tables, attempt, attempts, connected, at, started, raised) ==
    [ max_retries |-> max_retries, create_tables |-> create_tables, attempt |-> attempt,
      attempts |-> attempts, connected |-> connected, at |-> at, started |-> started,
      raised |-> raised ]

NotRun == Command(0, FALSE, 0, 0, FALSE, "", {}, "")

\* handle, lines 39-46: the options are read and the loop is entered;
\* range(max_retries) is empty when max_retries is 0 and the loop is skipped
Command_handle(max_retries, create_tables) ==
    /\ command = NotRun
    /\ command' = Command(max_retries, create_tables, 0, 0, FALSE,
                          IF max_retries > 0 THEN "cursor" ELSE "check_required_tables",
                          {}, "")
    /\ UNCHANGED <<users, tweets, nextId, now, reqs, resp, limit, middleware, database, calls>>

\* handle, lines 47-77: one connection attempt; success leaves the loop, a
\* failure sleeps when an iteration is left and raises the error otherwise
Command_connect ==
    /\ command.at = "cursor"
    /\ command' =
          LET tried == [command EXCEPT !.attempts = @ + 1] IN
          IF database.available
          THEN [tried EXCEPT !.connected = TRUE, !.at = "check_required_tables"]
          ELSE IF command.attempt < command.max_retries - 1
          THEN [tried EXCEPT !.at = "sleep"]
          ELSE [tried EXCEPT !.at = "raised", !.raised = "OperationalError"]
    /\ UNCHANGED <<users, tweets, nextId, now, reqs, resp, limit, middleware, database, calls>>

\* handle, line 70 and back to line 46: time.sleep(retry_delay), next attempt
Command_sleep ==
    /\ command.at = "sleep"
    /\ command' = [command EXCEPT !.attempt = @ + 1, !.at = "cursor"]
    /\ UNCHANGED <<users, tweets, nextId, now, reqs, resp, limit, middleware, database, calls>>

\* check_required_tables (line 80): the table query raises when the server does
\* not answer; missing tables are created when --create-tables is given
Command_check_required_tables ==
    /\ command.at = "check_required_tables"
    /\ command' =
          LET started == [command EXCEPT !.started = @ \cup {"check_required_tables"}] IN
          IF database.available
          THEN [started EXCEPT !.at = "check_database_info"]
          ELSE [started EXCEPT !.at = "raised", !.raised = "OperationalError"]
    /\ database' = IF database.available /\ command.create_tables
                   THEN Database(TRUE, TRUE) ELSE database
    /\ UNCHANGED <<users, tweets, nextId, now, reqs, resp, limit, middleware, calls>>

\* check_database_info (line 83) and the closing message
Command_check_database_info ==
    /\ command.at = "check_database_info"
    /\ command' =
          LET started == [command EXCEPT !.started = @ \cup {"check_database_info"}] IN
          IF database.available
          THEN [started EXCEPT !.at = "completed"]
          ELSE [started EXCEPT !.at = "raised", !.raised = "OperationalError"]
    /\ UNCHANGED <<users, tweets, nextId, now, reqs, resp, limit, middleware, database, calls>>

\* the response leaves
deliver ==
    /\ resp # NoResponse
    /\ resp' = NoResponse
    /\ UNCHANGED <<users, tweets, nextId, now, reqs, limit, middleware, database, calls, command>>

(***************************************************************************)
(* The requests the site is driven with                                    *)
(***************************************************************************)
Hello == Text(0, 5, 0)
Padded == Text(1, 280, 1)
TooLong == Text(0, 281, 0)
Updated == Text(0, 13, 0)

Jpeg == File("a.jpg", 1024, "image/jpeg", "image/jpeg")
Huge == File("h.jpg", 5 * 1024 * 1024 + 1, "image/jpeg", "image/jpeg")

Plain_post == Body(Hello, NoFile, FALSE, 10)
Image_post == Body(Padded, Jpeg, TRUE, 2048)
Invalid_post == Body(TooLong, NoFile, FALSE, 300)
Huge_post == Body(Hello, Huge, TRUE, 5 * 1024 * 1024 + 512)

\* bodies sent to tweet_list, tweet_create and tweet_reply
Bodies == {Plain_post, Invalid_post, Huge_post}

\* bodies sent to tweet_update
Edits == {Plain_post, Image_post, Invalid_post, Huge_post}

Ids == 1..limit.posts

\* what the model's save() is called with
Empty == Text(0, 0, 0)
Txt == File("notes.txt", 10, "text/plain", "")
SavedTexts == {Empty, Hello, TooLong}
SavedFiles == {NoFile, Txt, Huge}

\* what the forms are bound to: every text of up to max_length + 2 characters
\* between at most one whitespace character on either side, and files of the
\* sizes around the limits with every pairing of declared and decoded type,
\* under a short name and under a name of 101 characters
MaxText == max_length + 2
FormTexts == { Text(l, c, t) : l \in 0..1, c \in 0..MaxText, t \in 0..1 }
FormSizes == {0, 12, 5 * 1024 * 1024, 5 * 1024 * 1024 + 1}
FormTypes == allowed_types \cup {"text/plain", "image/bmp"}
FormNames == {"f", LongName}
FormFiles == { File(n, sz, ct, fmt) : n \in FormNames, sz \in FormSizes, ct \in FormTypes,
                                      fmt \in (FormTypes \ {"text/plain"}) \cup {""} }
EdgeTexts == { Text(l, c, t) : l \in 0..1, c \in {0, 1, max_length, max_length + 1},
                               t \in 0..1 }
FormBodies == { Body(t, NoFile, FALSE, len(t)) : t \in EdgeTexts }

Startup(posts, inflight, db) ==
    /\ users = AllUsers
    /\ tweets = <<>>
    /\ nextId = 1
    /\ now = 1
    /\ reqs = EmptyBag
    /\ resp = NoResponse
    /\ limit = [posts |-> posts, reqs |-> inflight]
    /\ middleware = DatabaseCheckMiddleware_init
    /\ database = db
    /\ calls = 0
    /\ command = NotRun

\* a process started against a reachable, migrated database
Start(posts, inflight) == Startup(posts, inflight, Database(TRUE, TRUE))

\* requests served one at a time
Init == Start(MaxPosts, 1)

\* requests interleaving
InitConc == Start(MaxPostsSmall, MaxReq)

Next ==
    \/ /\ Ready
       /\ \E view \in {"tweet_list", "tweet_create"} : tweet_list_get(view, Anon)
    \/ /\ Ready
       /\ \E view \in {"tweet_list", "tweet_create"}, user \in Principals, body \in Bodies :
             tweet_create(view, user, body)
    \/ /\ Ready
       /\ \E pk \in Ids : tweet_detail(Anon, pk)
    \/ /\ Ready
       /\ \E user \in Principals, pk \in Ids, body \in Bodies :
             tweet_reply(user, pk, "POST", body)
    \/ /\ Ready
       /\ \E pk \in Ids : tweet_reply(Anon, pk, "GET", NoBody)
    \/ \E q \in InFlight : tweet_reply_save(q)
    \/ /\ Ready
       /\ \E user \in Principals, pk \in Ids, body \in Edits :
             tweet_update(user, pk, "POST", body)
    \/ /\ Ready
       /\ \E user \in Principals, pk \in Ids :
             tweet_update(user, pk, "GET", NoBody)
    \/ \E q \in InFlight : tweet_update_save(q)
    \/ /\ Ready
       /\ \E user \in Principals, pk \in Ids, method \in {"GET", "POST"} :
             tweet_delete(user, pk, method)
    \/ /\ Ready
       /\ \E pk \in Ids : Tweet_delete(pk)
    \/ /\ Ready
       /\ \E pk \in Ids : Tweet_save(pk, Updated)
    \/ \E q \in InFlight : delete_collect(q)
    \/ \E q \in InFlight : delete_commit(q)
    \/ /\ Ready
       /\ \E u \in AllUsers : User_delete(u)
    \/ \E q \in InFlight : User_delete_commit(q)
    \/ deliver

Spec == Init /\ [][Next]_vars

\* the store written through the model
InitModel == Start(MaxPostsSmall, 1)

NextModel ==
    \/ /\ Ready
       /\ \E text \in SavedTexts, image \in SavedFiles, user \in AllUsers, parent \in Ids \cup {Null} :
             objects_create(text, image, user, parent)
    \/ /\ Ready
       /\ \E pk \in Ids : Tweet_delete(pk)
    \/ /\ Ready
       /\ \E pk \in Ids, text \in SavedTexts \cup {Updated} : Tweet_save(pk, text)
    \/ \E q \in InFlight : delete_collect(q)
    \/ \E q \in InFlight : delete_commit(q)
    \/ deliver

SpecModel == InitModel /\ [][NextModel]_vars

\* the forms over the range of their inputs
InitForm == Start(MaxPostsSmall, 1)

NextForm ==
    \/ /\ Ready
       /\ \E cls \in {"TweetForm", "ReplyForm"}, data \in FormTexts : form_is_valid(cls, data, NoFile)
    \/ /\ Ready
       /\ \E cls \in {"TweetForm", "ReplyForm"}, files \in FormFiles : form_is_valid(cls, Hello, files)
    \/ /\ Ready
       /\ \E view \in {"tweet_list", "tweet_create"}, user \in Principals, body \in FormBodies :
             tweet_create(view, user, body)
    \/ deliver

SpecForm == InitForm /\ [][NextForm]_vars

\* the requests that write, with forms that are valid
NextConc ==
    \/ /\ Ready
       /\ \E user \in Principals : tweet_create("tweet_create", user, Plain_post)
    \/ /\ Ready
       /\ \E user \in Principals, pk \in Ids : tweet_reply(user, pk, "POST", Plain_post)
    \/ \E q \in InFlight : tweet_reply_save(q)
    \/ /\ Ready
       /\ \E user \in users, pk \in Ids : tweet_update(user, pk, "POST", Image_post)
    \/ \E q \in InFlight : tweet_update_save(q)
    \/ /\ Ready
       /\ \E user \in users, pk \in Ids : tweet_delete(user, pk, "POST")
    \/ \E q \in InFlight : delete_collect(q)
    \/ \E q \in InFlight : delete_commit(q)
    \/ /\ Ready
       /\ \E u \in AllUsers : User_delete(u)
    \/ \E q \in InFlight : User_delete_commit(q)
    \/ deliver

SpecConc == InitConc /\ [][NextConc]_vars

\* multipart POSTs with declared lengths and images around the 5 MB limits
ExactSize == File("exact_size.jpg", 5 * 1024 * 1024, "image/jpeg", "image/jpeg")
SizeBodies ==
    { Body(Hello, NoFile, TRUE, 5 * 1024 * 1024 + 1),
      Body(Hello, Jpeg, TRUE, 5 * 1024 * 1024),
      Body(Hello, Jpeg, TRUE, 5 * 1024 * 1024 + 1),
      Body(Hello, ExactSize, TRUE, 5 * 1024 * 1024 + 512),
      Huge_post }

InitSize == Start(MaxPostsSmall, 1)

NextSize ==
    \/ /\ Ready
       /\ \E view \in {"tweet_list", "tweet_create"}, user \in Principals, body \in SizeBodies :
             tweet_create(view, user, body)
    \/ /\ Ready
       /\ \E user \in Principals, pk \in Ids, body \in SizeBodies :
             tweet_reply(user, pk, "POST", body)
    \/ \E q \in InFlight : tweet_reply_save(q)
    \/ /\ Ready
       /\ \E user \in Principals, pk \in Ids, body \in SizeBodies :
             tweet_update(user, pk, "POST", body)
    \/ \E q \in InFlight : tweet_update_save(q)
    \/ deliver

SpecSize == InitSize /\ [][NextSize]_vars

\* the paths of tweets/urls.py as test_urls.py resolves them ("/", "/create/",
\* "/1/", "/1/update/", "/1/delete/", "/1/reply/"), the same under a prefix
\* "/tweets", with and without the closing slash, and a path of another app
AppPaths ==
    {<<"", "">>, <<"", "create", "">>} \cup
    { <<"", id, "">> : id \in Digits } \cup
    { <<"", id, verb, "">> : id \in Digits, verb \in {"update", "delete", "reply"} }

GuardPaths ==
    AppPaths
    \cup { <<"", "tweets">> \o Tail(path) : path \in AppPaths }
    \cup { <<"", "tweets", id, verb>> : id \in Digits, verb \in {"update", "reply"} }
    \cup {<<"", "admin", "">>}

\* bodies with declared lengths around the limit
GuardBodies ==
    { Body(Hello, NoFile, mp, cl) : mp \in BOOLEAN,
                                    cl \in {0, 10, 5 * 1024 * 1024, 5 * 1024 * 1024 + 1} }

InitGuard == Start(MaxPostsSmall, 1)

NextGuard ==
    \/ /\ Ready
       /\ \E method \in {"GET", "POST"}, path \in GuardPaths, body \in GuardBodies :
             FileSizeMiddleware_call(method, path, body)
    \/ deliver

SpecGuard == InitGuard /\ [][NextGuard]_vars

\* one process behind DatabaseCheckMiddleware, its requests interleaving, the
\* database in any condition at startup and going away and coming back
InitDb ==
    \E available \in BOOLEAN, migrated \in BOOLEAN :
        Startup(MaxPostsSmall, MaxReq, Database(available, migrated))

NextDb ==
    \/ DatabaseCheckMiddleware_call
    \/ \E q \in InFlight : DatabaseCheckMiddleware_check_database(q)
    \/ \E q \in InFlight : DatabaseCheckMiddleware_checked(q)
    \/ \E q \in InFlight : DatabaseCheckMiddleware_respond(q)
    \/ database_switch
    \/ deliver

SpecDb == InitDb /\ [][NextDb]_vars

\* the same process serving one request at a time
InitDbSerial ==
    \E available \in BOOLEAN, migrated \in BOOLEAN :
        Startup(MaxPostsSmall, 1, Database(available, migrated))

SpecDbSerial == InitDbSerial /\ [][NextDb]_vars

\* a run of check_database with any --max-retries up to MaxRetries, against a
\* database in any condition that goes away and comes back while it runs
InitCmd ==
    \E available \in BOOLEAN, migrated \in BOOLEAN :
        Startup(MaxPostsSmall, 1, Database(available, migrated))

NextCmd ==
    \/ \E max_retries \in 0..MaxRetries, create_tables \in BOOLEAN :
          Command_handle(max_retries, create_tables)
    \/ Command_connect
    \/ Command_sleep
    \/ Command_check_required_tables
    \/ Command_check_database_info
    \/ database_switch

SpecCmd == InitCmd /\ [][NextCmd]_vars

TypeOK ==
    /\ users \subseteq AllUsers
    /\ pks \subseteq Ids
    /\ nextId \in 1..(limit.posts + 1)
    /\ now \in 1..MaxClock
    /\ middleware \in [_db_checked : BOOLEAN, _db_healthy : BOOLEAN]
    /\ database \in [available : BOOLEAN, migrated : BOOLEAN]
    /\ calls \in 0..limit.reqs

(***************************************************************************)
(* Properties                                                              *)
(***************************************************************************)
RECURSIVE Ancestors(_, _)
\* the tweets above p: its parent, the parent's parent, ...
Ancestors(p, tw) ==
    IF p \notin DOMAIN tw \/ tw[p].parent_tweet = Null \/ tw[p].parent_tweet \notin DOMAIN tw
    THEN {}
    ELSE {tw[p].parent_tweet} \cup Ancestors(tw[p].parent_tweet, tw)

\* the tweets of S and every transitive reply to them
Subtree(S, tw) == (S \cap DOMAIN tw) \cup {p \in DOMAIN tw : Ancestors(p, tw) \cap S # {}}

\* tweets other than those of `gone` are stored as they were
Kept(gone) ==
    /\ DOMAIN tweets' = pks \ gone
    /\ \A p \in pks \ gone : tweets'[p] = tweets[p]

\* the step in which the DELETE transaction of request q runs
Commits(q, views) ==
    /\ q.view \in views
    /\ q.phase = "collected"
    /\ reqs' = reqs (-) SetToBag({q})

\* C1: deleting a stored tweet P (the author's delete request, or
\* Tweet.delete()) removes exactly P and every transitive reply to P; every
\* other tweet stays stored, unchanged.
C1_CascadeDelete ==
    [][ \A q \in InFlight :
          Commits(q, {"tweet_delete", "Tweet.delete"}) =>
             /\ q.pk \in pks
             /\ resp'.to # "IntegrityError"
             /\ resp'.deleted = Subtree({q.pk}, tweets)
             /\ Kept(Subtree({q.pk}, tweets)) ]_vars

\* a delete has removed a tweet together with replies and left other tweets
C1_Witness ==
    /\ resp # NoResponse
    /\ resp.view \in {"tweet_delete", "Tweet.delete"}
    /\ Cardinality(resp.deleted) >= 2
    /\ resp.pk \in resp.deleted
    /\ pks # {}

\* every stored tweet with a parent references a stored tweet
NoOrphan == \A p \in pks : tweets[p].parent_tweet # Null => tweets[p].parent_tweet \in pks

\* the answer to a reply request: a reply it stored references its stored
\* target; when the target is gone nothing was stored
ReplyOutcome ==
    (resp # NoResponse /\ resp.view = "tweet_reply") =>
        /\ resp.saved # Null =>
              /\ resp.saved \in pks
              /\ resp.pk \in pks
              /\ tweets[resp.saved].parent_tweet = resp.pk
        /\ resp.pk \notin pks => resp.saved = Null

\* the response is the answer to a DELETE transaction for tweet resp.pk
DeleteAnswered ==
    /\ resp # NoResponse
    /\ resp.view \in {"tweet_delete", "Tweet.delete"}
    /\ resp.message = "success" \/ resp.to \in {"returned", "IntegrityError"}

\* C2: under any interleaving every stored tweet with a parent references a
\* stored tweet, and a reply racing with the deletion of its target ends
\* removed by the cascade or never stored: once the deletion is answered no
\* reply to its target is stored.
C2_AsStated ==
    /\ NoOrphan
    /\ ReplyOutcome
    /\ DeleteAnswered => \A p \in pks : tweets[p].parent_tweet # resp.pk

\* what the race does: the reply is removed by the cascade, or never stored,
\* or - stored between the deletion's collection of the rows and its DELETE -
\* it stays stored with its target and the deletion fails with an
\* IntegrityError, deleting nothing
RaceOutcome ==
    /\ NoOrphan
    /\ ReplyOutcome
    /\ DeleteAnswered =>
          IF resp.to = "IntegrityError"
          THEN resp.deleted = {} /\ resp.pk \in pks
          ELSE resp.pk \notin pks /\ \A p \in pks : tweets[p].parent_tweet # resp.pk

\* a deletion has failed on a reply stored after the rows were collected
C2_Witness ==
    /\ DeleteAnswered
    /\ resp.to = "IntegrityError"
    /\ resp.pk \in pks
    /\ \E p \in pks : tweets[p].parent_tweet = resp.pk

\* C3, as stated: deleting an account removes the tweets of that account and
\* neither removes nor changes a tweet of another account.
C3_AsStated ==
    [][ \A q \in InFlight :
          Commits(q, {"User.delete"}) =>
             /\ resp'.to # "IntegrityError"
             /\ Kept(user_tweets(q.pk, tweets)) ]_vars

\* C3: deleting an account removes the account, its tweets and every
\* transitive reply to them, whoever wrote the reply; every other tweet stays
\* stored, unchanged.
C3_AccountDelete ==
    [][ \A q \in InFlight :
          Commits(q, {"User.delete"}) =>
             /\ resp'.to # "IntegrityError"
             /\ users' = users \ {q.pk}
             /\ \A p \in pks' : tweets'[p].user # q.pk
             /\ resp'.deleted = Subtree({p \in pks : tweets[p].user = q.pk}, tweets)
             /\ Kept(Subtree({p \in pks : tweets[p].user = q.pk}, tweets)) ]_vars

\* an account deletion has removed tweets and left tweets of another account
C3_Witness ==
    /\ resp # NoResponse
    /\ resp.view = "User.delete"
    /\ resp.pk \notin users
    /\ Cardinality(resp.deleted) >= 2
    /\ pks # {}

\* the step answers a request to tweet_update or tweet_delete for a tweet the
\* caller does not own
NotOwnerAnswered ==
    /\ resp = NoResponse
    /\ resp' # NoResponse
    /\ resp'.view \in {"tweet_update", "tweet_delete"}
    /\ resp'.pk \notin pks \/ tweets[resp'.pk].user # resp'.user

\* C4: a GET or POST to tweet_update or tweet_delete for a stored tweet P by an
\* authenticated account that is not P's author is answered 404 and leaves P
\* and its replies stored and unchanged.
C4_NonAuthor404 ==
    [][ (NotOwnerAnswered /\ resp'.user # Anon /\ resp'.pk \in pks) =>
           /\ resp'.status = 404
           /\ tweets' = tweets ]_vars

\* a POST to tweet_update by another account, for a tweet with a reply, has
\* been answered 404
C4_Witness ==
    /\ resp # NoResponse
    /\ resp.view = "tweet_update"
    /\ resp.method = "POST"
    /\ resp.status = 404
    /\ resp.user # Anon
    /\ resp.pk \in pks
    /\ tweets[resp.pk].user # resp.user
    /\ \E p \in pks : tweets[p].parent_tweet = resp.pk

\* C5, as stated: for a caller that is not the author (another account, or
\* unauthenticated) a request for a stored tweet and the same request for an
\* id that is not stored both surface as not found.
C5_AsStated ==
    [][ NotOwnerAnswered => resp'.status = 404 ]_vars

\* C5: for a caller that is not the author, the response to tweet_update or
\* tweet_delete for a stored tweet is the response the same request gets when
\* the id is not stored: 404 for another account, the redirect to the login
\* page for an unauthenticated caller.
C5_Indistinguishable ==
    [][ NotOwnerAnswered =>
           /\ resp' = To(resp'.body,
                         access(resp'.view, resp'.user, resp'.pk, resp'.method,
                                Remove({resp'.pk}, tweets)))
           /\ IF resp'.user = Anon
              THEN resp'.status = 302 /\ resp'.to = "login"
              ELSE resp'.status = 404
           /\ tweets' = tweets ]_vars

\* an unauthenticated request to tweet_delete for a stored tweet has been
\* answered with the redirect to the login page
C5_Witness ==
    /\ resp # NoResponse
    /\ resp.view = "tweet_delete"
    /\ resp.user = Anon
    /\ resp.pk \in pks
    /\ resp.status = 302
    /\ resp.to = "login"

\* the step answers a POST to tweet_list or tweet_create that carries a valid
\* form, sent by an authenticated account
ValidCreateAnswered ==
    /\ resp = NoResponse
    /\ resp' # NoResponse
    /\ resp'.view \in {"tweet_list", "tweet_create"}
    /\ resp'.method = "POST"
    /\ resp'.user # Anon
    /\ ~too_large(resp'.body)
    /\ is_valid(TweetForm(resp'.body.text, resp'.body.image, NoFile))

\* C10: each valid create POST to tweet_list or tweet_create by an
\* authenticated account stores exactly one new tweet, with an id never used
\* before, the caller as author and no parent, and answers with the redirect
\* to the list; so k identical POSTs store k tweets.
C10_CreateOnce ==
    [][ ValidCreateAnswered =>
           /\ resp'.saved \notin pks
           /\ resp'.saved >= nextId
           /\ nextId' > resp'.saved
           /\ DOMAIN tweets' = pks \cup {resp'.saved}
           /\ \A p \in pks : tweets'[p] = tweets[p]
           /\ tweets'[resp'.saved].user = resp'.user
           /\ tweets'[resp'.saved].parent_tweet = Null
           /\ tweets'[resp'.saved].text = strip(resp'.body.text)
           /\ resp'.status = 302
           /\ resp'.to = "tweet_list" ]_vars

\* the same POST sent twice has stored two tweets
C10_Witness ==
    /\ resp # NoResponse
    /\ resp.view \in {"tweet_list", "tweet_create"}
    /\ resp.user # Anon
    /\ resp.saved \in pks
    /\ \E p \in pks \ {resp.saved} :
          /\ tweets[p].text = tweets[resp.saved].text
          /\ tweets[p].image = tweets[resp.saved].image
          /\ tweets[p].user = resp.user
          /\ tweets[p].parent_tweet = Null

\* the response answers the create form bound to a text and no image: the
\* form on its own, or a POST to tweet_list or tweet_create by a caller for
\* whom an author account exists
TextOnlyAnswered ==
    /\ resp # NoResponse
    /\ \/ resp.view = "TweetForm"
       \/ resp.view \in {"tweet_list", "tweet_create"} /\ resp.method = "POST"
                                                       /\ author(resp.user) # Null
    /\ resp.body.image = NoFile

\* the create form was valid and, in a handler, a tweet with `text` is stored
TextAccepted(text) ==
    /\ resp.errors = {}
    /\ resp.view # "TweetForm" =>
          /\ resp.status = 302
          /\ resp.saved \in pks
          /\ tweets[resp.saved].text = text

\* the create form was invalid with an error on text, and nothing is stored
TextRejected ==
    /\ "text" \in resp.errors
    /\ resp.saved = Null
    /\ resp.view # "TweetForm" => resp.status = 200

C7_AsStated ==
    \A p \in pks : len(tweets[p].text) >= 1 /\ len(tweets[p].text) <= max_length

\* C8, as stated: TweetForm and ReplyForm accept an image exactly when its
\* size is at most 5,242,880 bytes and its declared content type is one of
\* the four allowed; otherwise the form has an error on image.
C8_AsStated ==
    (resp # NoResponse /\ resp.view \in {"TweetForm", "ReplyForm"} /\ resp.body.image # NoFile) =>
       (("image" \notin resp.errors) <=>
           /\ resp.body.image.size <= 5242880
           /\ resp.body.image.content_type \in allowed_types)

\* C9, as stated: every stored tweet with an image has an image of at most
\* 5,242,880 bytes whose declared content type is one of the four allowed,
\* also when stored by Tweet.save() with no form.
C9_AsStated ==
    \A p \in pks :
        tweets[p].image.name # "" =>
           /\ tweets[p].image.size <= 5242880
           /\ tweets[p].image.content_type \in allowed_types

\* the step in which the valid reply form of request q, sent by an
\* authenticated account, is saved and answered
ValidReplyAnswered(q) ==
    /\ q.view = "tweet_reply"
    /\ q.phase = "valid"
    /\ q.user # Anon
    /\ reqs' = reqs (-) SetToBag({q})

\* what a page shows: the list shows no tweet that has a parent, and the
\* detail page of a tweet shows every stored tweet whose parent it is
RepliesListed ==
    (resp # NoResponse /\ resp.status = 200) =>
        /\ resp.view = "tweet_list" =>
              \A i \in 1..Len(resp.context) : tweets[resp.context[i]].parent_tweet = Null
        /\ resp.view = "tweet_detail" =>
              \A p \in pks : tweets[p].parent_tweet = resp.pk =>
                                \E i \in 1..Len(resp.context) : resp.context[i] = p

InvalidFormAnswered ==
    /\ resp = NoResponse
    /\ resp' # NoResponse
    /\ resp'.method = "POST"
    /\ ~too_large(resp'.body)
    /\ \/ /\ resp'.view \in {"tweet_list", "tweet_create"}
          /\ TweetForm(resp'.body.text, resp'.body.image, NoFile).errors # {}
       \/ /\ resp'.view = "tweet_update"
          /\ resp'.pk \in pks
          /\ tweets[resp'.pk].user = resp'.user
          /\ TweetForm(resp'.body.text, resp'.body.image,
                       AsFieldFile(tweets[resp'.pk].image)).errors # {}

\* C12, as stated: when the form of a create POST (tweet_list, tweet_create)
\* or of an update POST by the author fails validation, the answer is 200 with
\* the form's errors and an error notification, and the stored tweets are as
\* before the request.
C12_AsStated ==
    [][ InvalidFormAnswered =>
           /\ resp'.status = 200
           /\ resp'.errors # {}
           /\ resp'.message = "error"
           /\ tweets' = tweets ]_vars

\* an update POST with a text that is too long, for a tweet that has an image,
\* has ended in an AttributeError
C12_Witness ==
    /\ resp # NoResponse
    /\ resp.view = "tweet_update"
    /\ resp.status = 500
    /\ resp.to = "AttributeError"
    /\ resp.body = Invalid_post
    /\ tweets[resp.pk].image.name # ""

\* the step answers a request to tweet_reply
ReplyAnswered ==
    /\ resp = NoResponse
    /\ resp' # NoResponse
    /\ resp'.view = "tweet_reply"

\* C13: a request to tweet_reply for a stored tweet that is not a POST, or
\* whose form fails validation, stores nothing and is answered with the
\* redirect to tweet_detail of that tweet; a request to tweet_reply for an id
\* that is not stored is answered 404 and stores nothing.
C13_ReplyRejected ==
    [][ ReplyAnswered =>
           /\ (/\ resp'.pk \in pks
               /\ \/ resp'.method # "POST"
                  \/ ReplyForm(resp'.body.text, resp'.body.image).errors # {}) =>
                 /\ resp'.status = 302
                 /\ resp'.to = "tweet_detail"
                 /\ resp'.saved = Null
                 /\ tweets' = tweets
           /\ resp'.pk \notin pks =>
                 /\ resp'.status = 404
                 /\ resp'.saved = Null
                 /\ tweets' = tweets ]_vars

\* a reply POST with an invalid form, for a stored tweet, has been answered
\* with the redirect and nothing stored
C13_Witness ==
    /\ resp # NoResponse
    /\ resp.view = "tweet_reply"
    /\ resp.method = "POST"
    /\ resp.pk \in pks
    /\ "text" \in resp.errors
    /\ resp.status = 302
    /\ resp.to = "tweet_detail"
    /\ resp.saved = Null

\* the step answers a POST to tweet_update, within the size limit, by the
\* author of the tweet, with a text of 1 to 280 characters once trimmed and,
\* if a file is uploaded, an image the form accepts
ValidUpdateAnswered ==
    /\ resp = NoResponse
    /\ resp' # NoResponse
    /\ resp'.view = "tweet_update"
    /\ resp'.method = "POST"
    /\ resp'.pk \in pks
    /\ tweets[resp'.pk].user = resp'.user
    /\ ~too_large(resp'.body)
    /\ TweetForm(resp'.body.text, resp'.body.image,
                 AsFieldFile(tweets[resp'.pk].image)).errors = {}

\* C14, as stated: a valid update POST by the author of tweet P replaces P's
\* text, and P's image when one is uploaded, with the submitted values, sets
\* P's updated_at to a value strictly greater than before, and is answered
\* with a redirect (302).
C14_AsStated ==
    [][ ValidUpdateAnswered =>
           /\ resp'.pk \in pks'
           /\ tweets'[resp'.pk].text = strip(resp'.body.text)
           /\ resp'.body.image # NoFile =>
                 tweets'[resp'.pk].image.name = resp'.body.image.name
           /\ tweets'[resp'.pk].updated_at > tweets[resp'.pk].updated_at
           /\ resp'.status = 302 ]_vars

\* a valid update POST has replaced the text and the image and moved
\* updated_at forward, and has ended in NoReverseMatch
C14_Witness ==
    /\ resp # NoResponse
    /\ resp.view = "tweet_update"
    /\ resp.saved = resp.pk
    /\ resp.pk \in pks
    /\ tweets[resp.pk].text = strip(resp.body.text)
    /\ tweets[resp.pk].image.name = resp.body.image.name
    /\ tweets[resp.pk].updated_at > tweets[resp.pk].created_at
    /\ resp.status = 500
    /\ resp.to = "NoReverseMatch"

\* the step answers an update of a stored tweet: a POST to tweet_update, or
\* Tweet.save() on an instance read from the store
UpdateAnswered ==
    /\ resp = NoResponse
    /\ resp' # NoResponse
    /\ \/ resp'.view = "tweet_update" /\ resp'.method = "POST"
       \/ resp'.view = "Tweet.save"

DeleteGetAnswered ==
    /\ resp = NoResponse
    /\ resp' # NoResponse
    /\ resp'.view = "tweet_delete"
    /\ resp'.method = "GET"
    /\ resp'.pk \in pks
    /\ tweets[resp'.pk].user = resp'.user

\* C16, as stated: for the author of tweet P, a GET to tweet_delete shows the
\* confirmation page and leaves the store unchanged; a POST to tweet_delete
\* removes P and its descendants and is answered with the redirect (302) to
\* the list.
C16_AsStated ==
    [][ /\ DeleteGetAnswered =>
              /\ resp'.status = 200
              /\ resp'.to = "tweet_delete"
              /\ tweets' = tweets
        /\ \A q \in InFlight :
              Commits(q, {"tweet_delete"}) =>
                 /\ resp'.deleted = Subtree({q.pk}, tweets)
                 /\ Kept(Subtree({q.pk}, tweets))
                 /\ resp'.status = 302
                 /\ resp'.to = "tweet_list" ]_vars

\* a POST to tweet_delete has removed the tweet and a reply to it, and has
\* ended in NoReverseMatch
C16_Witness ==
    /\ resp # NoResponse
    /\ resp.view = "tweet_delete"
    /\ resp.method = "POST"
    /\ resp.pk \in resp.deleted
    /\ Cardinality(resp.deleted) >= 2
    /\ resp.deleted \cap pks = {}
    /\ resp.status = 500
    /\ resp.to = "NoReverseMatch"

\* the sequence ctx lists exactly the tweets of S, each once
Lists(ctx, S) ==
    /\ Len(ctx) = Cardinality(S)
    /\ {ctx[i] : i \in 1..Len(ctx)} = S

\* the sequence ctx of stored tweets is in the order of created_at, descending
\* or ascending
Ordered(ctx, desc) ==
    \A i, j \in 1..Len(ctx) :
        i < j => IF desc THEN tweets[ctx[i]].created_at >= tweets[ctx[j]].created_at
                         ELSE tweets[ctx[i]].created_at <= tweets[ctx[j]].created_at

\* C17: the page tweet_list answers with lists exactly the stored tweets that
\* have no parent, each once, newest created_at first; a tweet that is a
\* reply is not in it.
C17_ListTopLevel ==
    (resp # NoResponse /\ resp.view = "tweet_list" /\ resp.status = 200) =>
        /\ Lists(resp.context, {p \in pks : tweets[p].parent_tweet = Null})
        /\ Ordered(resp.context, TRUE)
        /\ \A p \in pks : tweets[p].parent_tweet # Null =>
                             \A i \in 1..Len(resp.context) : resp.context[i] # p

\* a GET to tweet_list has listed two tweets, newest first, with a reply
\* stored that is not listed
C17_Witness ==
    /\ resp # NoResponse
    /\ resp.view = "tweet_list"
    /\ resp.method = "GET"
    /\ Len(resp.context) = 2
    /\ tweets[resp.context[1]].created_at > tweets[resp.context[2]].created_at
    /\ \E p \in pks : tweets[p].parent_tweet # Null

\* C18: tweet_detail for a stored tweet P answers with P and exactly the
\* tweets whose parent is P, each once, oldest created_at first, and not with
\* the replies to those; tweet_detail for an id that is not stored answers
\* 404.
C18_DetailReplies ==
    (resp # NoResponse /\ resp.view = "tweet_detail") =>
        IF resp.pk \in pks
        THEN /\ resp.status = 200
             /\ resp.to = "tweet_detail"
             /\ Lists(resp.context, {p \in pks : tweets[p].parent_tweet = resp.pk})
             /\ Ordered(resp.context, FALSE)
        ELSE /\ resp.status = 404
             /\ resp.context = <<>>

\* tweet_detail has shown a tweet with its one reply while a reply to that
\* reply is stored
C18_Witness ==
    /\ resp # NoResponse
    /\ resp.view = "tweet_detail"
    /\ resp.status = 200
    /\ Len(resp.context) = 1
    /\ \E p \in pks : tweets[p].parent_tweet = resp.context[1]

RECURSIVE Climb(_, _, _)
\* climbing from p through parent_tweet comes back to a tweet already seen
Climb(p, tw, seen) ==
    IF p \notin DOMAIN tw \/ tw[p].parent_tweet = Null THEN FALSE
    ELSE IF tw[p].parent_tweet \in seen THEN TRUE
    ELSE Climb(tw[p].parent_tweet, tw, seen \cup {tw[p].parent_tweet})

\* C19: in every state reached through the handlers (create, reply, update,
\* delete, account deletion) the parent relation is acyclic: no stored tweet
\* is its own ancestor.
C19_Acyclic == \A p \in pks : ~Climb(p, tweets, {p})

\* an update has rewritten a tweet that has a stored reply
C19_Witness ==
    /\ resp # NoResponse
    /\ resp.view = "tweet_update"
    /\ resp.saved = resp.pk
    /\ resp.pk \in pks
    /\ \E p \in pks : tweets[p].parent_tweet = resp.pk

\* the step answers a POST, within the size limit and with a valid form, from
\* an unauthenticated caller: to tweet_list or tweet_create, or to tweet_reply
\* for a stored tweet
AnonymousPostAnswered ==
    /\ resp = NoResponse
    /\ resp' # NoResponse
    /\ resp'.user = Anon
    /\ resp'.method = "POST"
    /\ ~too_large(resp'.body)
    /\ \/ /\ resp'.view \in {"tweet_list", "tweet_create"}
          /\ TweetForm(resp'.body.text, resp'.body.image, NoFile).errors = {}
       \/ /\ resp'.view = "tweet_reply"
          /\ resp'.pk \in pks
          /\ ReplyForm(resp'.body.text, resp'.body.image).errors = {}

\* C20, as stated: in every state of the account store, a valid create or
\* reply POST from an unauthenticated caller stores the tweet with the account
\* with id 1 as author and is answered with the redirect an authenticated
\* caller gets: to the list for a create, to tweet_detail for a reply.
C20_AsStated ==
    [][ AnonymousPostAnswered =>
           /\ resp'.saved \in pks' \ pks
           /\ tweets'[resp'.saved].user = DefaultUserId
           /\ resp'.status = 302
           /\ resp'.to = IF resp'.view = "tweet_reply" THEN "tweet_detail" ELSE "tweet_list" ]_vars

\* with the account with id 1 deleted, a valid reply POST from an
\* unauthenticated caller has ended in DoesNotExist and stored nothing
C20_Witness ==
    /\ resp # NoResponse
    /\ resp.view = "tweet_reply"
    /\ resp.user = Anon
    /\ resp.pk \in pks
    /\ DefaultUserId \notin users
    /\ resp.status = 500
    /\ resp.to = "DoesNotExist"
    /\ resp.saved = Null

\* the step answers a POST to tweet_list, tweet_create, tweet_reply or
\* tweet_update
PostAnswered ==
    /\ resp = NoResponse
    /\ resp' # NoResponse
    /\ resp'.method = "POST"
    /\ resp'.view \in {"tweet_list", "tweet_create", "tweet_reply", "tweet_update"}

\* C21: a multipart POST to tweet_list, tweet_create, tweet_reply or
\* tweet_update whose declared Content-Length exceeds 5,242,880 creates,
\* changes and deletes no tweet and is answered without the form being
\* validated; a declared length of exactly 5,242,880 is not rejected by the
\* size check (no error notification without form errors), and what the
\* handler then reports as a success is stored.
C21_SizeGuard ==
    [][ PostAnswered =>
           /\ (resp'.body.multipart /\ resp'.body.content_length > 5242880) =>
                 /\ tweets' = tweets
                 /\ resp'.saved = Null
                 /\ resp'.deleted = {}
                 /\ resp'.errors = {}
                 /\ resp'.message # "success"
           /\ (resp'.body.multipart /\ resp'.body.content_length = 5242880) =>
                 /\ ~(resp'.message = "error" /\ resp'.errors = {})
                 /\ resp'.message = "success" => resp'.saved \in pks' ]_vars

\* a reply POST that declares exactly 5,242,880 bytes has been stored with its
\* image
C21_Witness ==
    /\ resp # NoResponse
    /\ resp.view = "tweet_reply"
    /\ resp.body.multipart
    /\ resp.body.content_length = 5242880
    /\ resp.saved \in pks
    /\ tweets[resp.saved].image.name # ""

\* C22, as stated: a create POST (tweet_list, tweet_create) with a valid text
\* and an image of an allowed type of exactly 5,242,880 bytes, the largest the
\* form accepts, passes the size check, is stored with the image and is
\* answered with a redirect (302).
C22_AsStated ==
    [][ (/\ PostAnswered
         /\ resp'.view \in {"tweet_list", "tweet_create"}
         /\ author(resp'.user) # Null
         /\ CharField_clean(resp'.body.text).ok
         /\ resp'.body.image.size = 5242880
         /\ resp'.body.image.content_type \in allowed_types
         /\ resp'.body.image.format = resp'.body.image.content_type) =>
           /\ resp'.status = 302
           /\ resp'.saved \in pks'
           /\ tweets'[resp'.saved].image.name = resp'.body.image.name ]_vars

\* a create POST with an image of exactly 5,242,880 bytes has been rejected
\* by the size check and nothing stored
C22_Witness ==
    /\ resp # NoResponse
    /\ resp.view \in {"tweet_list", "tweet_create"}
    /\ resp.body.image = ExactSize
    /\ is_valid(TweetForm(resp.body.text, resp.body.image, NoFile))
    /\ resp.status = 200
    /\ resp.message = "error"
    /\ resp.errors = {}
    /\ resp.saved = Null

\* the response is the guard rejecting a request
GuardRejected ==
    /\ resp # NoResponse
    /\ resp.view = "FileSizeMiddleware"
    /\ resp.to # "get_response"

\* C23, as stated: when FileSizeMiddleware rejects a request, the answer is
\* the redirect to tweet_detail of the id in the path for a reply or update
\* path (/{id}/reply/, /{id}/update/), the redirect to the list for the other
\* paths of the application (/, /create/), each with an error notification,
\* and a plain 400 only when no redirect target can be inferred.
C23_AsStated ==
    (GuardRejected /\ resp.path \in AppPaths) =>
        IF Len(resp.path) = 4 /\ resp.path[3] \in {"reply", "update"}
        THEN /\ resp.status = 302
             /\ resp.to = "tweet_detail"
             /\ resp.pk = int(resp.path[2])
             /\ resp.message = "error"
        ELSE IF resp.path \in {<<"", "">>, <<"", "create", "">>}
        THEN /\ resp.status = 302
             /\ resp.to = "tweet_list"
             /\ resp.message = "error"
        ELSE resp.status \in {302, 400}

\* the guard has answered a POST to /1/reply/ that was too large with 400
C23_Witness ==
    /\ GuardRejected
    /\ resp.path = <<"", "1", "reply", "">>
    /\ resp.status = 400
    /\ resp.message = "error"

\* C24: TweetForm (create) and ReplyForm validate the text as trimmed: with no
\* image, a text that is only whitespace, or empty, or longer than 280
\* characters once trimmed has an error on the field text and no other; a text
\* of 1 to 280 characters once trimmed is accepted; and is_valid() returns in
\* every case, it never raises.
C24_TrimmedText ==
    (resp # NoResponse /\ resp.view \in {"TweetForm", "ReplyForm"} /\ resp.body.image = NoFile) =>
        /\ resp.to = "is_valid"
        /\ resp.errors = IF resp.body.text.core >= 1 /\ resp.body.text.core <= max_length
                         THEN {} ELSE {"text"}

\* ReplyForm has rejected a text that is only whitespace with an error on text
C24_Witness ==
    /\ resp # NoResponse
    /\ resp.view = "ReplyForm"
    /\ resp.body.text.core = 0
    /\ len(resp.body.text) > 0
    /\ resp.to = "is_valid"
    /\ resp.errors = {"text"}

\* C25, as stated: a deleted tweet is never stored again, under any
\* interleaving of an update request that loaded the tweet with a delete
\* request for it: no step stores a row under an id that the store handed
\* out before and no longer holds.
C25_AsStated ==
    [][ \A p \in DOMAIN tweets' \ pks : p >= nextId ]_vars


\* C26, as stated: whatever the number of requests and however the first
\* requests of one DatabaseCheckMiddleware instance interleave, _check_database
\* is called at most once.
C26_AsStated == calls <= 1

\* the first request has run the check and recorded that it did
C26_Witness ==
    /\ calls = 1
    /\ middleware._db_checked
    /\ resp.view = "handler"

\* the step is taken with the flag computed as healthy
Healthy == middleware._db_checked /\ middleware._db_healthy

\* C27, as stated: once the flag has been computed as healthy it stays
\* healthy and no step checks the database again; a request answered from then
\* on is passed to its handler, and with the database unavailable the handler's
\* database error is answered with the plain-text 500 of process_exception.
C27_AsStated ==
    [][ Healthy =>
          /\ middleware' = middleware
          /\ calls' = calls
          /\ (resp = NoResponse /\ resp' # NoResponse) =>
                /\ resp'.view \in {"handler", "process_exception"}
                /\ ~database.available =>
                      /\ resp'.view = "process_exception"
                      /\ resp'.status = 500
                      /\ resp'.to = "text/plain" ]_vars

\* a request is answered by process_exception: the flag is healthy, the
\* database is gone
C27_Witness ==
    /\ Healthy
    /\ ~database.available
    /\ resp.view = "process_exception"
    /\ resp.status = 500

\* the step is taken with the flag computed as unhealthy
Unhealthy == middleware._db_checked /\ ~middleware._db_healthy

\* C28, as stated: once the first check has failed the flag stays unhealthy
\* and no step checks the database again, even with the database available;
\* a request answered from then on gets the 500 of the middleware and no
\* handler runs.
C28_AsStated ==
    [][ Unhealthy =>
          /\ middleware' = middleware
          /\ calls' = calls
          /\ (resp = NoResponse /\ resp' # NoResponse) =>
                /\ resp'.view = "DatabaseCheckMiddleware"
                /\ resp'.status = 500 ]_vars

\* a request is refused with the database available and migrated: the failure
\* of the first check is still what the flag says
C28_Witness ==
    /\ Unhealthy
    /\ database = Database(TRUE, TRUE)
    /\ resp.view = "DatabaseCheckMiddleware"
    /\ resp.status = 500


\* the form `cls` bound to the input the response answers
Bound(cls, body) ==
    IF cls = "TweetForm" THEN TweetForm(body.text, body.image, NoFile)
    ELSE ReplyForm(body.text, body.image)

\* C29, as stated: whatever text and file one of the two forms is bound to, the
\* other form bound to the same input is valid exactly when it is, and reports
\* errors on the same fields.
C29_AsStated ==
    [][ \A cls \in {"TweetForm", "ReplyForm"} :
          (resp = NoResponse /\ resp'.view = cls /\ resp'.to = "is_valid") =>
             LET other == Bound(CHOOSE c \in {"TweetForm", "ReplyForm"} : c # cls, resp'.body)
             IN /\ resp'.errors = other.errors
                /\ (resp'.errors = {}) <=> is_valid(other) ]_vars

\* ReplyForm refuses an image of more than 5 MB under a short name, as
\* TweetForm does
C29_Witness ==
    /\ resp.view = "ReplyForm"
    /\ resp.errors = {"image"}
    /\ resp.body.image.size > 5 * 1024 * 1024
    /\ name_len(resp.body.image.name) <= 100
    /\ TweetForm(resp.body.text, resp.body.image, NoFile).errors = {"image"}


\* C30, as stated: for every max_retries >= 0 the command makes at most
\* max_retries connection attempts, makes none after one succeeded, starts the
\* table and info checks only after an attempt succeeded, and when every
\* attempt failed ends with the connection error, those checks not started.
C30_AsStated ==
    /\ command.attempts <= command.max_retries
    /\ command.connected => command.at \notin {"cursor", "sleep"}
    /\ (command.started # {} \/ command.at \in {"check_required_tables",
                                                 "check_database_info", "completed"})
          => command.connected
    /\ (command.at = "raised" /\ ~command.connected)
          => /\ command.attempts = command.max_retries
             /\ command.started = {}
             /\ command.raised = "OperationalError"

\* the second of two attempts succeeded and the run went through both checks
C30_Witness ==
    /\ command.max_retries = 2
    /\ command.attempts = 2
    /\ command.connected
    /\ command.started = {"check_required_tables", "check_database_info"}
    /\ command.at = "completed"

====
